---- MODULE Spec2Model ----
(***************************************************************************)
(* Model of the iframe-resizing library: the resize command dispatcher     *)
(* (sendResizeCommand), the ResizeObserver callback that drives it, and    *)
(* the initialisation / cleanup entry points.                              *)
(*                                                                         *)
(* Execution is single threaded: every action below is one callback turn   *)
(* of the event loop (an observer notification, a 'message' event, a timer *)
(* callback, a call of an exported function), including the promise        *)
(* reactions (microtasks) that turn runs before it ends.                   *)
(***************************************************************************)
EXTENDS Integers, Sequences, FiniteSets, TLC

\* ---- bounds of the model -------------------------------------------------
MaxInstances == 1      \* calls of initIFrameResizing
MaxDispatch  == 2      \* calls of sendResizeCommand
MaxBatch     == 2      \* entries in one notification
TickMs       == 20000  \* granularity of the clock
MaxTime      == 40000  \* the clock stops here
MaxAuto      == 1      \* calls of autoInitIFrameResizing
MaxDeferred  == 2      \* initialisations run by DOMContentLoaded listeners
MaxPair      == 2      \* calls of initIFrameResizing on a page that makes several

\* ---- program constants ---------------------------------------------------
TimeoutMs == 20000

TimeoutMessage == "Timeout exceeded for command resize"
ServerSideWarning == "initIFrameResizing: Cannot initialize on server side"
NoBodyWarning == "initIFrameResizing: Document body not found"

participants == [PARENT |-> "parent", CHILD |-> "child"]

\* Heights are numbers in thousandths of a pixel, so that 500500 stands for
\* the non-integer height 500.5; 0 and a large value are included.
Heights == {0, 500500, 2000000000}

Entries == [contentRect : [height : Heights]]

Batches == UNION {[1..n -> Entries] : n \in 0..MaxBatch}

\* Which hooks the caller supplied; a supplied hook returns normally.
Options == [onError : BOOLEAN, captureError : BOOLEAN]

\* Options whose hooks may throw: throws names the supplied hooks that throw
\* when they are called.
HookNames == {"onError", "captureError"}

ThrowingOptions ==
  {o \in [onError : BOOLEAN, captureError : BOOLEAN, throws : SUBSET HookNames] :
     /\ ("onError" \in o.throws => o.onError)
     /\ ("captureError" \in o.throws => o.captureError)}

\* document.readyState
ReadyStates == {"loading", "interactive", "complete"}

\* an identifier generated once and used for every command
uuidOnce(n) == 1

\* uuidv4(): the n-th identifier generated; 0 is never generated.
uuidv4(n) == n + 1

CommandIds == 0..MaxDispatch

\* Inbound 'message' events: the two fields of event.data the listener reads.
Messages == [receiver : {participants.PARENT, participants.CHILD},
             correspondingCommandId : CommandIds]

VARIABLES
  hasWindow,    \* typeof window !== 'undefined'
  hasBody,      \* document.body is present
  readyState,   \* document.readyState
  instances,    \* one record per call of initIFrameResizing
  createdBy,    \* per instance: 0 when the application called
                \* initIFrameResizing, else the autoInitIFrameResizing call
  autos,        \* one record per call of autoInitIFrameResizing
  readyListeners, \* 'DOMContentLoaded' listeners on document (by auto call)
  handleCalled, \* history: the autoInitIFrameResizing calls whose returned
                \* function the application has called
  uuids,        \* number of identifiers generated so far
  commands,     \* per dispatch: the Command built by sendResizeCommand
  owner,        \* per dispatch: the instance whose observer dispatched it
  sentAt,       \* per dispatch: the time sendResizeCommand was called
  promises,     \* per dispatch: the promise returned by sendResizeCommand
  listeners,    \* 'message' listeners registered on window (by dispatch)
  timers,       \* armed timers: dispatch -> deadline
  posted,       \* calls of window.parent.postMessage, in order, each with
                \* whether its listener and timer existed at the call
  events,       \* console.warn calls and hook invocations, in order
  uncaught,     \* errors thrown out of a callback
  lastNotified, \* the batch passed to the latest observer callback, if any
  inbox,        \* messages posted to this window and not yet delivered
  now           \* the clock, in ms

vars == <<hasWindow, hasBody, readyState, instances, createdBy, autos,
          readyListeners, handleCalled, uuids, commands, owner, sentAt,
          promises, listeners, timers, posted, events, uncaught,
          lastNotified, inbox, now>>

Dispatches == 1..Len(commands)

\* The state of the deferred initialisation.
autoVars == <<readyState, autos, readyListeners, handleCalled>>

\* ---- the promise of one dispatch ------------------------------------------
\* resolveCalls and rejectCalls count the calls of the two settling
\* functions, whether or not the call had an effect.
NewPromise == [state |-> "pending", reason |-> "none",
               resolveCalls |-> 0, rejectCalls |-> 0]

\* A listener that calls reject where resolve was meant.
RejectInsteadOfResolve(p) ==
  [p EXCEPT !.state = IF p.state = "pending" THEN "rejected" ELSE @,
            !.reason = IF p.state = "pending" THEN "undefined" ELSE @,
            !.rejectCalls = @ + 1]

\* resolve(): settles a pending promise, no effect on a settled one.
resolve(p) ==
  [p EXCEPT !.state = IF p.state = "pending" THEN "fulfilled" ELSE @,
            !.resolveCalls = @ + 1]

\* reject(new Error(message))
reject(p, message) ==
  [p EXCEPT !.state = IF p.state = "pending" THEN "rejected" ELSE @,
            !.reason = IF p.state = "pending" THEN message ELSE @,
            !.rejectCalls = @ + 1]

\* ---- sendResizeCommand ----------------------------------------------------
\* A command that carries the height rounded to whole pixels.
CommandRounded(id, height) ==
  [id |-> id,
   sender |-> participants.CHILD,
   receiver |-> participants.PARENT,
   name |-> "resize",
   payload |-> <<<<((height + 500) \div 1000) * 1000>>>>]

Command(id, height) ==
  [id |-> id,
   sender |-> participants.CHILD,
   receiver |-> participants.PARENT,
   name |-> "resize",
   payload |-> <<<<height>>>>]

\* window.parent.postMessage(command, '*')
PostMessage(command) == [message |-> command, targetOrigin |-> "*"]

\* Listeners that take responses in the order of their commands: a response
\* to any command in flight is taken by the oldest listener.
IsResponseInOrder(command, commandResponse) ==
  /\ command.sender = commandResponse.receiver
  /\ \E d \in listeners :
       commands[d].id = commandResponse.correspondingCommandId
  /\ \A d \in listeners : commands[d].id >= command.id

\* A listener that also requires the response to come from the receiver of
\* the command.
IsResponseFromReceiver(command, commandResponse) ==
  ~(\/ command.sender # commandResponse.receiver
    \/ command.id # commandResponse.correspondingCommandId
    \/ command.receiver # commandResponse.sender)

\* A listener without the test: any message is taken for the response.
IsResponseToAnything(command, commandResponse) == TRUE

\* A listener that compares only the receiver.
IsResponseToAnyCommand(command, commandResponse) ==
  ~(command.sender # commandResponse.receiver)

\* The listener's test of an inbound message: TRUE when the listener does not
\* return early.
IsResponseTo(command, commandResponse) ==
  ~(\/ command.sender # commandResponse.receiver
    \/ command.id # commandResponse.correspondingCommandId)

\* A listener that leaves its timer armed.
ListenerKeepsTimeout(tm, hit) == tm

\* clearTimeout(timeout) in the listeners that matched.
ListenerClearTimeout(tm, hit) == [d \in (DOMAIN tm) \ hit |-> tm[d]]

\* A listener that stays registered after its response.
ListenerStays(ls, hit) == ls

\* window.removeEventListener('message', listener) in the listeners that
\* matched.
ListenerRemove(ls, hit) == ls \ hit

\* A timer callback that removes every 'message' listener.
TimeoutRemoveAll(ls, d) == {}

\* A timer callback that leaves the listener registered.
TimeoutKeepsListener(ls, d) == ls

\* window.removeEventListener('message', listener) in the timer callback.
TimeoutRemove(ls, d) == ls \ {d}

\* A timer whose delay is the full one for the first command only.
SetTimeoutFirstOnly(tm, d, t) ==
  [e \in (DOMAIN tm) \cup {d} |->
     IF e = d THEN (IF d = 1 THEN t + TimeoutMs ELSE t) ELSE tm[e]]

\* A timer armed without its delay.
SetTimeoutNoDelay(tm, d, t) == [e \in (DOMAIN tm) \cup {d} |->
                                  IF e = d THEN t ELSE tm[e]]

\* a dispatch that arms no timer
SetTimeoutNever(tm, d, t) == tm

\* setTimeout(..., 20000) at time t.
SetTimeout(tm, d, t) == [e \in (DOMAIN tm) \cup {d} |->
                           IF e = d THEN t + TimeoutMs ELSE tm[e]]

\* a dispatch that registers no listener
AddListenerNot(ls, d) == ls

\* window.addEventListener('message', listener, false)
AddListener(ls, d) == ls \cup {d}

\* ---- the catch handler of the observer callback ---------------------------
Warn(message, d) == [kind |-> "warn", message |-> message, dispatch |-> d]

Hook(name, message, d) == [kind |-> name, message |-> message, dispatch |-> d]

\* A catch handler that reports to captureError before onError.
CatchHandlerCaptureFirst(options, message, d) ==
  <<Warn(message, d)>>
    \o (IF options.captureError
          THEN <<Hook("captureError", message, d)>> ELSE <<>>)
    \o (IF options.onError THEN <<Hook("onError", message, d)>> ELSE <<>>)

\* Whether the hook `name` of options throws when it is called.
Throws(options, name) ==
  /\ "throws" \in DOMAIN options
  /\ name \in options.throws

\* The calls the catch handler makes, in order: console.warn, onError when
\* supplied, captureError when supplied; an exception thrown by onError leaves
\* the handler before captureError is reached.
CatchHandler(options, message, d) ==
  <<Warn(message, d)>>
    \o (IF options.onError THEN <<Hook("onError", message, d)>> ELSE <<>>)
    \o (IF options.captureError
            /\ ~(options.onError /\ Throws(options, "onError"))
          THEN <<Hook("captureError", message, d)>> ELSE <<>>)

\* Whether the catch handler ends by throwing: the promise returned by
\* .catch() is then rejected, and nothing handles it.
CatchHandlerThrows(options) ==
  \/ options.onError /\ Throws(options, "onError")
  \/ options.captureError /\ Throws(options, "captureError")

\* The promise reactions run at the end of a turn: the catch handler of every
\* dispatch of ds whose promise was rejected in the turn (ps before, qs after),
\* in dispatch order.
RECURSIVE Reactions(_, _, _)
Reactions(ps, qs, ds) ==
  IF ds = {} THEN <<>>
  ELSE LET d == CHOOSE x \in ds : \A y \in ds : x <= y
       IN (IF ps[d].state = "pending" /\ qs[d].state = "rejected"
             THEN CatchHandler(instances[owner[d]].options, qs[d].reason, d)
             ELSE <<>>)
          \o Reactions(ps, qs, ds \ {d})

\* The unhandled rejections of a turn: one for every catch handler that ran
\* in the turn and threw.
Unhandled(ps, qs, ds) ==
  IF \E d \in ds :
       /\ ps[d].state = "pending"
       /\ qs[d].state = "rejected"
       /\ CatchHandlerThrows(instances[owner[d]].options)
    THEN {"UnhandledRejection"}
    ELSE {}

\* ---- the observer callback ------------------------------------------------
\* A callback that drops a notification while a command is in flight.
HasEntryAndIdle(entries) == Len(entries) > 0 /\ listeners = {}

\* A callback without the guard on the first entry.
NoEntryGuard(entries) == TRUE

\* A callback that stops reporting after the first failed dispatch.
HasEntryUntilFailure(entries) ==
  /\ Len(entries) > 0
  /\ \A d \in DOMAIN promises : promises[d].state # "rejected"

\* const entry = entries[0]; if (!entry) return;
HasEntry(entries) == Len(entries) > 0

\* A callback that reports the last entry of the batch.
ObservedHeightOfLast(entries) == entries[Len(entries)].contentRect.height

\* contentRect.height of the entry taken from the batch.
ObservedHeight(entries) == entries[1].contentRect.height

Init ==
  /\ hasWindow \in BOOLEAN
  /\ hasBody \in BOOLEAN
  /\ (~hasWindow => ~hasBody)
  /\ readyState = "complete"
  /\ instances = <<>>
  /\ createdBy = <<>>
  /\ autos = <<>>
  /\ readyListeners = <<>>
  /\ handleCalled = {}
  /\ uuids = 0
  /\ commands = <<>>
  /\ owner = <<>>
  /\ sentAt = <<>>
  /\ promises = <<>>
  /\ listeners = {}
  /\ timers = <<>>
  /\ posted = <<>>
  /\ events = <<>>
  /\ uncaught = {}
  /\ lastNotified = <<>>
  /\ inbox = <<>>
  /\ now = 0

\* ---- initIFrameResizing(options) ------------------------------------------
\* an initialisation that creates the observer and never attaches it
NewInstanceNeverObserves(options) ==
  IF ~hasWindow
    THEN [options |-> options, observer |-> FALSE,
          observed |-> {}, cleanup |-> "noop"]
    ELSE [options |-> options, observer |-> TRUE,
          observed |-> {}, cleanup |-> "disconnect"]

\* an initialisation that observes without testing the body
NewInstanceNoBodyCheck(options) ==
  IF ~hasWindow
    THEN [options |-> options, observer |-> FALSE,
          observed |-> {}, cleanup |-> "noop"]
    ELSE [options |-> options, observer |-> TRUE,
          observed |-> {"body"}, cleanup |-> "disconnect"]

\* The observer initIFrameResizing creates and the cleanup it returns:
\* observer says whether a ResizeObserver was constructed, observed is the set
\* of elements it observes, cleanup the function returned.
NewInstance(options) ==
  IF ~hasWindow
    THEN [options |-> options, observer |-> FALSE,
          observed |-> {}, cleanup |-> "noop"]
    ELSE IF hasBody
      THEN [options |-> options, observer |-> TRUE,
            observed |-> {"body"}, cleanup |-> "disconnect"]
      ELSE [options |-> options, observer |-> TRUE,
            observed |-> {}, cleanup |-> "disconnect"]

\* an initIFrameResizing that is silent on the server side
InitWarningsSilentOnServer ==
  IF ~hasWindow THEN <<>>
  ELSE IF hasBody THEN <<>>
  ELSE <<Warn(NoBodyWarning, 0)>>

\* The warnings initIFrameResizing logs.
InitWarnings ==
  IF ~hasWindow THEN <<Warn(ServerSideWarning, 0)>>
  ELSE IF hasBody THEN <<>>
  ELSE <<Warn(NoBodyWarning, 0)>>

\* a cleanup that toggles the attachment instead of ending it
DisconnectToggles(insts, i) ==
  [insts EXCEPT ![i].observed =
     IF insts[i].cleanup = "disconnect"
       THEN (IF @ = {} THEN {"body"} ELSE {})
       ELSE @]

\* a cleanup that disconnects every observer of the page
DisconnectAll(insts, i) ==
  [j \in DOMAIN insts |->
     [insts[j] EXCEPT !.observed =
        IF insts[i].cleanup = "disconnect" THEN {} ELSE @]]

\* observer.disconnect() through the cleanup function of instance i.
Disconnect(insts, i) ==
  [insts EXCEPT ![i].observed =
     IF insts[i].cleanup = "disconnect" THEN {} ELSE @]

\* The instances the application created by calling initIFrameResizing.
DirectInstances == {i \in 1..Len(instances) : createdBy[i] = 0}

\* The instances created by DOMContentLoaded listeners.
DeferredInstances ==
  {i \in 1..Len(instances) :
     createdBy[i] # 0 /\ autos[createdBy[i]].path = "deferred"}

\* What a call of initIFrameResizing(options) by the application does.
initIFrameResizingCall(options) ==
  /\ events' = events \o InitWarnings
  /\ instances' = Append(instances, NewInstance(options))
  /\ createdBy' = Append(createdBy, 0)
  /\ UNCHANGED <<hasWindow, hasBody, uuids, commands, owner, sentAt, promises,
                 listeners, timers, posted, uncaught, lastNotified, now>>
  /\ UNCHANGED autoVars
  /\ UNCHANGED inbox

\* A call of initIFrameResizing(options) by the application.
initIFrameResizing(options) ==
  /\ Cardinality(DirectInstances) < MaxInstances
  /\ initIFrameResizingCall(options)

\* ---- the cleanup function returned by initIFrameResizing ------------------
\* a cleanup that also cancels the dispatches of its observer
CleanupCancels(i) ==
  /\ i \in DirectInstances
  /\ instances' = Disconnect(instances, i)
  /\ listeners' = {d \in listeners : owner[d] # i}
  /\ timers' = [d \in {e \in DOMAIN timers : owner[e] # i} |-> timers[d]]
  /\ UNCHANGED <<hasWindow, hasBody, uuids, commands, owner, sentAt, promises,
                 posted, events, uncaught, lastNotified, now>>
  /\ UNCHANGED <<createdBy, autoVars>>
  /\ UNCHANGED inbox

\* The application holds the function initIFrameResizing returned to it.
Cleanup(i) ==
  /\ i \in DirectInstances
  /\ instances' = Disconnect(instances, i)
  /\ UNCHANGED <<hasWindow, hasBody, uuids, commands, owner, sentAt, promises,
                 listeners, timers, posted, events, uncaught, lastNotified,
                 now>>
  /\ UNCHANGED <<createdBy, autoVars>>
  /\ UNCHANGED inbox

\* ---- autoInitIFrameResizing(options) --------------------------------------
\* cleanup is what the returned function calls: 0 for `() => {}`, else the
\* instance whose cleanup it is (in the deferred path, the variable `cleanup`).
\* the deferred path taken for the wrong ready state
DocumentInteractive == readyState = "interactive"

\* the deferred path taken until the document is complete
DocumentNotComplete == readyState # "complete"

\* document.readyState === 'loading'
DocumentLoading == readyState = "loading"

\* an autoInitIFrameResizing that hands over to initIFrameResizing on the
\* server side too
autoInitDelegatesOnServer(options) ==
  /\ Len(autos) < MaxAuto
  /\ LET a == Len(autos) + 1
     IN IF hasWindow /\ DocumentLoading
          THEN /\ autos' = Append(autos, [options |-> options,
                                          path |-> "deferred",
                                          cleanup |-> 0])
               /\ readyListeners' = Append(readyListeners, a)
               /\ UNCHANGED <<instances, createdBy, events>>
          ELSE /\ autos' = Append(autos,
                              [options |-> options,
                               path |-> IF hasWindow THEN "immediate"
                                        ELSE "server",
                               cleanup |-> Len(instances) + 1])
               /\ instances' = Append(instances, NewInstance(options))
               /\ createdBy' = Append(createdBy, a)
               /\ events' = events \o InitWarnings
               /\ UNCHANGED readyListeners
  /\ UNCHANGED <<hasWindow, hasBody, readyState, handleCalled, uuids,
                 commands, owner, sentAt, promises, listeners, timers, posted,
                 uncaught, lastNotified, now>>
  /\ UNCHANGED inbox

autoInitIFrameResizing(options) ==
  /\ Len(autos) < MaxAuto
  /\ LET a == Len(autos) + 1
     IN IF ~hasWindow
          THEN /\ autos' = Append(autos, [options |-> options,
                                          path |-> "server", cleanup |-> 0])
               /\ UNCHANGED <<instances, createdBy, readyListeners, events>>
          ELSE IF DocumentLoading
            THEN /\ autos' = Append(autos, [options |-> options,
                                            path |-> "deferred",
                                            cleanup |-> 0])
                 /\ readyListeners' = Append(readyListeners, a)
                 /\ UNCHANGED <<instances, createdBy, events>>
            ELSE /\ autos' = Append(autos, [options |-> options,
                                            path |-> "immediate",
                                            cleanup |-> Len(instances) + 1])
                 /\ instances' = Append(instances, NewInstance(options))
                 /\ createdBy' = Append(createdBy, a)
                 /\ events' = events \o InitWarnings
                 /\ UNCHANGED readyListeners
  /\ UNCHANGED <<hasWindow, hasBody, readyState, handleCalled, uuids,
                 commands, owner, sentAt, promises, listeners, timers, posted,
                 uncaught, lastNotified, now>>
  /\ UNCHANGED inbox

\* ---- the 'DOMContentLoaded' event on document -----------------------------
\* Every registered listener runs, in registration order: it calls
\* initIFrameResizing(options) and stores the result in its `cleanup`.
\* a listener that initialises without keeping the cleanup
RECURSIVE RunReadyListenersDropCleanup(_, _)
RunReadyListenersDropCleanup(ls, st) ==
  IF ls = <<>> THEN st
  ELSE LET a == Head(ls)
       IN RunReadyListenersDropCleanup(Tail(ls),
            [instances |-> Append(st.instances,
                                  NewInstance(st.autos[a].options)),
             createdBy |-> Append(st.createdBy, a),
             autos |-> st.autos,
             events |-> st.events \o InitWarnings])

RECURSIVE RunReadyListeners(_, _)
RunReadyListeners(ls, st) ==
  IF ls = <<>> THEN st
  ELSE LET a == Head(ls)
       IN RunReadyListeners(Tail(ls),
            [instances |-> Append(st.instances,
                                  NewInstance(st.autos[a].options)),
             createdBy |-> Append(st.createdBy, a),
             autos |-> [st.autos EXCEPT
                          ![a].cleanup = Len(st.instances) + 1],
             events |-> st.events \o InitWarnings])

\* The listeners that stay registered after the event.
ReadyListenersAfter(ls) == ls

DOMContentLoaded ==
  /\ hasWindow
  /\ Cardinality(DeferredInstances) + Len(readyListeners) <= MaxDeferred
  /\ LET st == RunReadyListeners(readyListeners,
                 [instances |-> instances, createdBy |-> createdBy,
                  autos |-> autos, events |-> events])
     IN /\ instances' = st.instances
        /\ createdBy' = st.createdBy
        /\ autos' = st.autos
        /\ events' = st.events
  /\ readyState' = IF readyState = "loading" THEN "interactive"
                   ELSE readyState
  /\ readyListeners' = ReadyListenersAfter(readyListeners)
  /\ UNCHANGED <<hasWindow, hasBody, handleCalled, uuids, commands, owner,
                 sentAt, promises, listeners, timers, posted, uncaught,
                 lastNotified, now>>
  /\ UNCHANGED inbox

\* ---- the function returned by autoInitIFrameResizing call a ---------------
\* Calling the cleanup c: `() => {}` when c is 0, else that of instance c.
CallCleanup(insts, c) == IF c = 0 THEN insts ELSE Disconnect(insts, c)

\* a handle that also withdraws the listener of its call
AutoCleanupCancelsInit(a) ==
  /\ a \in 1..Len(autos)
  /\ instances' = CallCleanup(instances, autos[a].cleanup)
  /\ handleCalled' = handleCalled \cup {a}
  /\ readyListeners' = SelectSeq(readyListeners, LAMBDA b : b # a)
  /\ UNCHANGED <<hasWindow, hasBody, uuids, commands, owner, sentAt, promises,
                 listeners, timers, posted, events, uncaught, lastNotified,
                 now>>
  /\ UNCHANGED <<createdBy, readyState, autos>>
  /\ UNCHANGED inbox

AutoCleanup(a) ==
  /\ a \in 1..Len(autos)
  /\ instances' = CallCleanup(instances, autos[a].cleanup)
  /\ handleCalled' = handleCalled \cup {a}
  /\ UNCHANGED <<hasWindow, hasBody, uuids, commands, owner, sentAt, promises,
                 listeners, timers, posted, events, uncaught, lastNotified,
                 now>>
  /\ UNCHANGED <<createdBy, readyState, autos, readyListeners>>
  /\ UNCHANGED inbox

\* ---- the parser inserts the body element ----------------------------------
BodyAppears ==
  /\ hasWindow
  /\ ~hasBody
  /\ hasBody' = TRUE
  /\ UNCHANGED <<hasWindow, instances, uuids, commands, owner, sentAt,
                 promises, listeners, timers, posted, events, uncaught,
                 lastNotified, now>>
  /\ UNCHANGED <<createdBy, autoVars>>
  /\ UNCHANGED inbox

\* ---- sendResizeCommand(height), called by the observer of instance i ------
\* The promise executor runs synchronously: the command is built, the timer
\* armed, the listener registered and the command posted in the same turn.

\* an executor that posts the command before it registers the listener
ListenersAtPostNotYet(ls, d) == ls

\* The listeners on window when postMessage is called: addEventListener is
\* the statement before it.
ListenersAtPost(ls, d) == AddListener(ls, d)

\* The timers armed when postMessage is called: setTimeout was called first.
TimersAtPost(tm, d, t) == SetTimeout(tm, d, t)

\* What the parent is sent, and whether the listener and the timer of the
\* dispatch existed at that instant.
PostedBy(command, d) ==
  [message |-> PostMessage(command).message,
   targetOrigin |-> PostMessage(command).targetOrigin,
   listening |-> d \in ListenersAtPost(listeners, d),
   armed |-> d \in DOMAIN TimersAtPost(timers, d, now)]

sendResizeCommand(i, height) ==
  LET d == Len(commands) + 1
      command == Command(uuidv4(uuids), height)
  IN /\ uuids' = uuids + 1
     /\ commands' = Append(commands, command)
     /\ owner' = Append(owner, i)
     /\ sentAt' = Append(sentAt, now)
     /\ promises' = Append(promises, NewPromise)
     /\ timers' = SetTimeout(timers, d, now)
     /\ listeners' = AddListener(listeners, d)
     /\ posted' = Append(posted, PostedBy(command, d))

\* ---- a notification delivered to the observer of instance i ---------------
Notify(i, entries) ==
  /\ i \in 1..Len(instances)
  /\ "body" \in instances[i].observed
  /\ lastNotified' = <<entries>>
  /\ IF ~HasEntry(entries)
       THEN UNCHANGED <<uuids, commands, owner, sentAt, promises, listeners,
                        timers, posted, uncaught>>
       ELSE IF entries = <<>>
         \* destructuring undefined throws a TypeError out of the callback
         THEN /\ uncaught' = uncaught \cup {"TypeError"}
              /\ UNCHANGED <<uuids, commands, owner, sentAt, promises,
                             listeners, timers, posted>>
         ELSE /\ Len(commands) < MaxDispatch
              /\ sendResizeCommand(i, ObservedHeight(entries))
              /\ UNCHANGED uncaught
  /\ UNCHANGED <<hasWindow, hasBody, instances, events, now>>
  /\ UNCHANGED <<createdBy, autoVars>>
  /\ UNCHANGED inbox

\* ---- a 'message' event on window: every registered listener runs ----------
RunListeners(msg) ==
  LET hit == {d \in listeners : IsResponseTo(commands[d], msg)}
      settled == [d \in DOMAIN promises |->
                    IF d \in hit THEN resolve(promises[d]) ELSE promises[d]]
  IN /\ timers' = ListenerClearTimeout(timers, hit)
     /\ listeners' = ListenerRemove(listeners, hit)
     /\ promises' = settled
     /\ events' = events \o Reactions(promises, settled, hit)

\* A message sent to this window by another window.
Deliver(msg) ==
  /\ hasWindow
  /\ RunListeners(msg)
  /\ UNCHANGED <<hasWindow, hasBody, instances, uuids, commands, owner,
                 sentAt, posted, uncaught, lastNotified, now>>
  /\ UNCHANGED <<createdBy, autoVars>>
  /\ UNCHANGED inbox

\* ---- the timer callback of dispatch d -------------------------------------
\* A due timer runs when no other timer has an earlier deadline; timers with
\* the same deadline run in the order they were set, and a timer that has run
\* is gone.
Timeout(d) ==
  /\ d \in DOMAIN timers
  /\ timers[d] <= now
  /\ \A e \in DOMAIN timers :
       ~(timers[e] < timers[d] \/ (timers[e] = timers[d] /\ e < d))
  /\ LET settled == [promises EXCEPT ![d] = reject(@, TimeoutMessage)]
     IN /\ timers' = [e \in (DOMAIN timers) \ {d} |-> timers[e]]
        /\ listeners' = TimeoutRemove(listeners, d)
        /\ promises' = settled
        /\ events' = events \o Reactions(promises, settled, {d})
        /\ uncaught' = uncaught \cup Unhandled(promises, settled, {d})
  /\ UNCHANGED <<hasWindow, hasBody, instances, uuids, commands, owner,
                 sentAt, posted, lastNotified, now>>
  /\ UNCHANGED <<createdBy, autoVars>>
  /\ UNCHANGED inbox

\* ---- time passes ----------------------------------------------------------
Tick ==
  /\ now < MaxTime
  /\ now' = now + TickMs
  /\ UNCHANGED <<hasWindow, hasBody, instances, uuids, commands, owner,
                 sentAt, promises, listeners, timers, posted, events,
                 uncaught, lastNotified>>
  /\ UNCHANGED <<createdBy, autoVars>>
  /\ UNCHANGED inbox

Next ==
  \/ \E options \in Options : initIFrameResizing(options)
  \/ \E i \in 1..MaxInstances : Cleanup(i)
  \/ \E i \in 1..MaxInstances, entries \in Batches : Notify(i, entries)
  \/ \E msg \in Messages : Deliver(msg)
  \/ \E d \in 1..MaxDispatch : Timeout(d)
  \/ Tick

Spec == Init /\ [][Next]_vars

\* ---- the event loop runs every due timer and time passes ------------------
\* Commands are dispatched while the clock of the model can still reach their
\* deadline.
FairNext ==
  \/ \E options \in Options : initIFrameResizing(options)
  \/ \E i \in 1..MaxInstances : Cleanup(i)
  \/ \E i \in 1..MaxInstances, entries \in Batches :
       now + TimeoutMs <= MaxTime /\ Notify(i, entries)
  \/ \E msg \in Messages : Deliver(msg)
  \/ \E d \in 1..MaxDispatch : Timeout(d)
  \/ Tick

FairSpec ==
  /\ Init
  /\ [][FairNext]_vars
  /\ WF_vars(Tick)
  /\ WF_vars(\E d \in 1..MaxDispatch : Timeout(d))

\* ---- any value may arrive as event.data of a 'message' event --------------
\* shape tells what event.data is; for an object the other fields are its
\* properties, "undefined" (0 for correspondingCommandId) when it lacks them.
\* Reading a property of a primitive gives undefined, so a primitive carries
\* the same placeholders.
BoundaryObjects ==
  [shape : {"object"},
   receiver : {participants.PARENT, participants.CHILD, "undefined"},
   correspondingCommandId : CommandIds,
   sender : {participants.PARENT, participants.CHILD},
   payload : {"ok", "other"}]

BoundaryPrimitives ==
  [shape : {"primitive", "null", "undefined"},
   receiver : {"undefined"},
   correspondingCommandId : {0},
   sender : {"undefined"},
   payload : {"undefined"}]

BoundaryData == BoundaryObjects \cup BoundaryPrimitives

\* event.data is null or undefined: destructuring it in the parameter list
\* succeeds, reading commandResponse.receiver throws a TypeError.
Nullish(data) == data.shape \in {"null", "undefined"}

\* A 'message' event with any data: every registered listener runs, and a
\* listener that throws does not stop the others.
Receive(data) ==
  IF Nullish(data)
    THEN /\ hasWindow
         /\ uncaught' = IF listeners = {} THEN uncaught
                        ELSE uncaught \cup {"TypeError"}
         /\ UNCHANGED <<hasWindow, hasBody, instances, uuids, commands, owner,
                        sentAt, promises, listeners, timers, posted, events,
                        lastNotified, now>>
         /\ UNCHANGED <<createdBy, autoVars>>
         /\ UNCHANGED inbox
    ELSE Deliver(data)

\* Notifications that report one height, or carry no entry.
LifeBatches == {<<>>, <<[contentRect |-> [height |-> 500500]]>>}

WireNext ==
  \/ \E options \in Options : initIFrameResizing(options)
  \/ \E i \in 1..MaxInstances : Cleanup(i)
  \/ \E i \in 1..MaxInstances, entries \in LifeBatches : Notify(i, entries)
  \/ \E data \in BoundaryData : Receive(data)
  \/ \E d \in 1..MaxDispatch : Timeout(d)
  \/ Tick

WireSpec == Init /\ [][WireNext]_vars

\* ---- collaborators that throw ----------------------------------------------
\* The message of the error window.parent.postMessage throws, for example a
\* TypeError when window.parent cannot be used.
PostError == "postMessage failed"

\* an executor that posts the command first: when the post throws, no timer
\* is armed and no listener registered
sendResizeCommandPostFirst(i, height) ==
  LET d == Len(commands) + 1
      command == Command(uuidv4(uuids), height)
  IN /\ uuids' = uuids + 1
     /\ commands' = Append(commands, command)
     /\ owner' = Append(owner, i)
     /\ sentAt' = Append(sentAt, now)
     /\ promises' = Append(promises, reject(NewPromise, PostError))
     /\ timers' = timers
     /\ listeners' = listeners
     /\ posted' = posted

\* sendResizeCommand(height) when window.parent.postMessage throws: the timer
\* is armed and the listener registered, nothing is posted, and the exception
\* of the executor rejects the promise.
sendResizeCommandPostThrows(i, height) ==
  LET d == Len(commands) + 1
      command == Command(uuidv4(uuids), height)
  IN /\ uuids' = uuids + 1
     /\ commands' = Append(commands, command)
     /\ owner' = Append(owner, i)
     /\ sentAt' = Append(sentAt, now)
     /\ promises' = Append(promises, reject(NewPromise, PostError))
     /\ timers' = SetTimeout(timers, d, now)
     /\ listeners' = AddListener(listeners, d)
     /\ posted' = posted

\* A notification whose command cannot be posted: the catch handler runs
\* when the callback has returned, in the same turn.
NotifyPostThrows(i, entries) ==
  /\ i \in 1..Len(instances)
  /\ "body" \in instances[i].observed
  /\ HasEntry(entries)
  /\ Len(commands) < MaxDispatch
  /\ lastNotified' = <<entries>>
  /\ sendResizeCommandPostThrows(i, ObservedHeight(entries))
  /\ events' = events \o CatchHandler(instances[i].options, PostError,
                                       Len(commands) + 1)
  /\ uncaught' = uncaught \cup
                   (IF CatchHandlerThrows(instances[i].options)
                      THEN {"UnhandledRejection"} ELSE {})
  /\ UNCHANGED <<hasWindow, hasBody, instances, now>>
  /\ UNCHANGED <<createdBy, autoVars>>
  /\ UNCHANGED inbox

\* The bridge with hooks that may throw and a parent that may be unusable.
FaultNext ==
  \/ \E options \in ThrowingOptions : initIFrameResizing(options)
  \/ \E i \in 1..MaxInstances : Cleanup(i)
  \/ \E i \in 1..MaxInstances, entries \in LifeBatches : Notify(i, entries)
  \/ \E i \in 1..MaxInstances, entries \in LifeBatches :
       NotifyPostThrows(i, entries)
  \/ \E msg \in Messages : Deliver(msg)
  \/ \E d \in 1..MaxDispatch : Timeout(d)
  \/ Tick

FaultSpec == Init /\ [][FaultNext]_vars

\* ---- the page is not embedded: window.parent is the window itself ---------
\* event.data of the 'message' event a posted command causes on this window:
\* a copy of the command, which has the receiver and the sender of the command
\* and no correspondingCommandId (its identifier is in the property id).
EchoData(command) ==
  [shape |-> "object",
   receiver |-> command.receiver,
   correspondingCommandId |-> 0,
   sender |-> command.sender,
   payload |-> "other"]

\* A notification with a first entry: window.parent.postMessage queues the
\* command on this window.
NotifyNotEmbedded(i, entries) ==
  /\ i \in 1..Len(instances)
  /\ "body" \in instances[i].observed
  /\ HasEntry(entries)
  /\ Len(commands) < MaxDispatch
  /\ now + TimeoutMs <= MaxTime
  /\ lastNotified' = <<entries>>
  /\ sendResizeCommand(i, ObservedHeight(entries))
  /\ inbox' = Append(inbox, posted'[Len(posted')].message)
  /\ UNCHANGED <<hasWindow, hasBody, instances, events, uncaught, now>>
  /\ UNCHANGED <<createdBy, autoVars>>

\* The 'message' event of the oldest queued command: every registered
\* listener runs on it.
Echo ==
  /\ inbox # <<>>
  /\ RunListeners(EchoData(Head(inbox)))
  /\ inbox' = Tail(inbox)
  /\ UNCHANGED <<hasWindow, hasBody, instances, uuids, commands, owner,
                 sentAt, posted, uncaught, lastNotified, now>>
  /\ UNCHANGED <<createdBy, autoVars>>

\* Nothing but the page itself sends messages to the window; the event loop
\* runs every due timer and time passes.
EchoNext ==
  \/ \E options \in Options : initIFrameResizing(options)
  \/ \E i \in 1..MaxInstances : Cleanup(i)
  \/ \E i \in 1..MaxInstances : Notify(i, <<>>)
  \/ \E i \in 1..MaxInstances, entries \in LifeBatches :
       NotifyNotEmbedded(i, entries)
  \/ Echo
  \/ \E d \in 1..MaxDispatch : Timeout(d)
  \/ Tick

EchoSpec ==
  /\ Init
  /\ [][EchoNext]_vars
  /\ WF_vars(Tick)
  /\ WF_vars(\E d \in 1..MaxDispatch : Timeout(d))

\* ---- the application calls initIFrameResizing more than once --------------
PairNext ==
  \/ \E options \in Options :
       /\ Cardinality(DirectInstances) < MaxPair
       /\ initIFrameResizingCall(options)
  \/ \E i \in 1..MaxPair : Cleanup(i)
  \/ \E i \in 1..MaxPair, entries \in LifeBatches : Notify(i, entries)
  \/ \E msg \in Messages : Deliver(msg)
  \/ \E d \in 1..MaxDispatch : Timeout(d)
  \/ Tick

PairSpec == Init /\ [][PairNext]_vars

\* ---- the lifecycle: both entry points, the ready event, the cleanups ------
\* The document may still be loading and the body may be missing.
LifeInstanceIds == 1..(MaxInstances + MaxAuto + MaxDeferred)

LifeInit ==
  /\ hasWindow \in BOOLEAN
  /\ hasBody \in BOOLEAN
  /\ (~hasWindow => ~hasBody)
  /\ readyState \in ReadyStates
  /\ (~hasWindow => readyState = "complete")
  /\ instances = <<>>
  /\ createdBy = <<>>
  /\ autos = <<>>
  /\ readyListeners = <<>>
  /\ handleCalled = {}
  /\ uuids = 0
  /\ commands = <<>>
  /\ owner = <<>>
  /\ sentAt = <<>>
  /\ promises = <<>>
  /\ listeners = {}
  /\ timers = <<>>
  /\ posted = <<>>
  /\ events = <<>>
  /\ uncaught = {}
  /\ lastNotified = <<>>
  /\ inbox = <<>>
  /\ now = 0

LifeNext ==
  \/ \E options \in Options : initIFrameResizing(options)
  \/ \E options \in Options : autoInitIFrameResizing(options)
  \/ DOMContentLoaded
  \/ BodyAppears
  \/ \E i \in LifeInstanceIds : Cleanup(i)
  \/ \E a \in 1..MaxAuto : AutoCleanup(a)
  \/ \E i \in LifeInstanceIds, entries \in LifeBatches : Notify(i, entries)

LifeSpec == LifeInit /\ [][LifeNext]_vars

(***************************************************************************)
(* Properties of the dispatcher                                            *)
(***************************************************************************)
\* A message that is a matching response to dispatch d: receiver 'child' and
\* the id of d's command.
Matching(d, msg) ==
  /\ msg.receiver = "child"
  /\ msg.correspondingCommandId = commands[d].id

EventsOf(d) == SelectSeq(events, LAMBDA e : e.dispatch = d)

Pending(d) == promises[d].state = "pending"

Fulfilled(d) == promises[d].state = "fulfilled"

Rejected(d) == promises[d].state = "rejected"

\* C1: every dispatch is settled at most once, and its outcome is one of
\* resolved (by a response) or rejected (by the timeout): the two settling
\* functions are called at most once between them, so no dispatch is both
\* resolved and rejected or settled twice.
C1_SettlesAtMostOnce ==
  \A d \in Dispatches :
    /\ promises[d].resolveCalls + promises[d].rejectCalls <= 1
    /\ Pending(d) <=> promises[d].resolveCalls + promises[d].rejectCalls = 0
    /\ Fulfilled(d) <=> promises[d].resolveCalls = 1
    /\ Rejected(d) <=> promises[d].rejectCalls = 1
    /\ Rejected(d) => promises[d].reason = TimeoutMessage

\* one dispatch was acknowledged and another timed out
C1_Witness ==
  \E d, e \in Dispatches : Fulfilled(d) /\ Rejected(e)

\* A resolved dispatch has neither listener nor timer and reported nothing.
C2_ResolvedState ==
  \A d \in Dispatches :
    Fulfilled(d) =>
      /\ d \notin listeners
      /\ d \notin DOMAIN timers
      /\ promises[d].resolveCalls = 1
      /\ promises[d].rejectCalls = 0
      /\ EventsOf(d) = <<>>

\* The delivery of a matching response to a pending or resolved dispatch.
C2_DeliverStep ==
  \A msg \in Messages :
    Deliver(msg) =>
      \A d \in Dispatches :
        Matching(d, msg) =>
          /\ Pending(d) =>
               /\ promises'[d].state = "fulfilled"
               /\ d \notin listeners'
               /\ d \notin DOMAIN timers'
               /\ events' = events
          /\ Fulfilled(d) =>
               /\ promises'[d] = promises[d]
               /\ events' = events

\* C2: a matching response delivered to a pending dispatch resolves it,
\* removes its listener and cancels its timer; a resolved dispatch has no
\* timer that could fire, has logged nothing and called no hook, and a further
\* matching response does not change it.
C2_MatchingResponseResolves == []C2_ResolvedState /\ [][C2_DeliverStep]_vars

\* the deadline of a resolved dispatch has passed and nothing was reported
C2_Witness ==
  \E d \in Dispatches :
    Fulfilled(d) /\ now >= sentAt[d] + TimeoutMs /\ events = <<>>

\* A rejected dispatch failed with the timeout error, no sooner than 20000 ms
\* after it was sent, and has no listener.
C3_RejectedState ==
  \A d \in Dispatches :
    Rejected(d) =>
      /\ promises[d].reason = "Timeout exceeded for command resize"
      /\ d \notin listeners
      /\ now >= sentAt[d] + 20000
      /\ promises[d].resolveCalls = 0

\* The timer callback of a pending dispatch.
C3_TimeoutStep ==
  \A d \in Dispatches :
    (Pending(d) /\ Timeout(d)) =>
      /\ promises'[d].state = "rejected"
      /\ promises'[d].reason = "Timeout exceeded for command resize"
      /\ d \notin listeners'

\* A message delivered after the timeout.
C3_LateResponseStep ==
  \A msg \in Messages :
    Deliver(msg) =>
      \A d \in Dispatches :
        Rejected(d) => promises'[d] = promises[d] /\ events' = events

\* C3: the timer callback of a pending dispatch, which runs no sooner than
\* 20000 ms after the dispatch, rejects it with the error 'Timeout exceeded
\* for command resize' and removes its listener; a response delivered after
\* that changes neither the dispatch nor the log of warnings and hook calls.
C3_TimeoutRejects ==
  /\ []C3_RejectedState
  /\ [][C3_TimeoutStep /\ C3_LateResponseStep]_vars

\* a dispatch timed out, was reported, and no listener is left
C3_Witness ==
  \E d \in Dispatches :
    Rejected(d) /\ listeners = {} /\ Len(EventsOf(d)) > 0

\* The delivery of a message that is not a matching response to d.
C4_DeliverStep ==
  \A msg \in Messages :
    Deliver(msg) =>
      \A d \in Dispatches :
        ~Matching(d, msg) =>
          /\ promises'[d] = promises[d]
          /\ (d \in listeners') <=> (d \in listeners)
          /\ (d \in DOMAIN timers') <=> (d \in DOMAIN timers)
          /\ (d \in DOMAIN timers) => timers'[d] = timers[d]

\* C4: a message whose correspondingCommandId is not the id of dispatch d, or
\* whose receiver is not 'child', leaves d as it was (promise, listener and
\* timer); a message changes only the dispatch whose id it carries.
C4_UnrelatedResponseIgnored == [][C4_DeliverStep]_vars

\* the later of two dispatches in flight was acknowledged, the earlier one
\* is still waiting
C4_Witness ==
  /\ Len(commands) >= 2
  /\ Pending(1) /\ 1 \in listeners /\ 1 \in DOMAIN timers
  /\ Fulfilled(2)

\* C5: a dispatch that has completed, resolved or rejected, has no message
\* listener registered on the window.
C5_NoListenerLeak ==
  \A d \in Dispatches : ~Pending(d) => d \notin listeners

\* two dispatches timed out and no listener is left
C5_Witness ==
  /\ Len(commands) >= 2
  /\ Rejected(1) /\ Rejected(2)
  /\ listeners = {}

(***************************************************************************)
(* Properties of the observer callback                                     *)
(***************************************************************************)
InstanceIds == 1..MaxInstances

PostedIds == {posted[k].message.id : k \in 1..Len(posted)}

\* A notification with a first entry posts the command of its height.
C6_NotifyStep ==
  \A entries \in Batches \ {<<>>} :
    \A i \in InstanceIds :
      Notify(i, entries) =>
        LET sent == posted'[Len(posted')]
        IN /\ Len(posted') = Len(posted) + 1
           /\ sent.message.id \notin PostedIds
           /\ sent.message =
                [id |-> sent.message.id,
                 sender |-> "child",
                 receiver |-> "parent",
                 name |-> "resize",
                 payload |-> <<<<entries[1].contentRect.height>>>>]
           /\ sent.targetOrigin = "*"

\* Every message posted has the five fields of a resize command.
C6_PostedShape ==
  \A k \in 1..Len(posted) :
    /\ posted[k].targetOrigin = "*"
    /\ DOMAIN posted[k].message =
         {"id", "sender", "receiver", "name", "payload"}
    /\ posted[k].message.sender = "child"
    /\ posted[k].message.receiver = "parent"
    /\ posted[k].message.name = "resize"
    /\ \E h \in Heights : posted[k].message.payload = <<<<h>>>>

\* C6: a notification whose first entry has content height h posts exactly
\* {id, sender: 'child', receiver: 'parent', name: 'resize', payload: [[h]]}
\* with an id no earlier command had, to the target origin '*'; every posted
\* message has this shape.
C6_CommandShape == []C6_PostedShape /\ [][C6_NotifyStep]_vars

\* a non-integer height and the height 0 were both reported
C6_Witness ==
  /\ Len(posted) = 2
  /\ posted[1].message.payload = <<<<500500>>>>
  /\ posted[2].message.payload = <<<<0>>>>

\* A notification with a first entry appends one command to those posted.
C7_NotifyStep ==
  \A entries \in Batches \ {<<>>} :
    \A i \in InstanceIds :
      Notify(i, entries) =>
        /\ Len(posted') = Len(posted) + 1
        /\ SubSeq(posted', 1, Len(posted)) = posted
        /\ posted'[Len(posted')].message.payload[1][1] =
             entries[1].contentRect.height

\* Only such a notification posts.
C7_OnlyNotifyPosts ==
  (posted' # posted) =>
    \E entries \in Batches \ {<<>>} :
      \E i \in InstanceIds : Notify(i, entries)

\* Every dispatch was posted once, in dispatch order.
C7_PostedOnce ==
  /\ Len(posted) = Len(commands)
  /\ \A d \in Dispatches : posted[d].message = commands[d]

\* C7: every notification with at least one entry appends exactly one command
\* to the commands posted so far, carrying the height of that notification,
\* whatever commands are still pending; no other step posts anything (no
\* retry after a timeout); every dispatch was posted once, in dispatch order.
C7_OneCommandPerNotification ==
  /\ []C7_PostedOnce
  /\ [][C7_NotifyStep /\ C7_OnlyNotifyPosts]_vars

\* two commands with the same height are in flight together
C7_Witness ==
  /\ Len(posted) = 2
  /\ Pending(1) /\ Pending(2)
  /\ posted[1].message.payload = posted[2].message.payload

\* The callback called with an empty batch.
C8_EmptyBatchStep ==
  \A i \in InstanceIds :
    Notify(i, <<>>) =>
      UNCHANGED <<posted, listeners, timers, commands, promises, uuids,
                  events, uncaught>>

\* C8: the observer callback called with an empty batch returns without
\* throwing and posts nothing, registers no listener and starts no timer.
C8_EmptyBatchIgnored == [][C8_EmptyBatchStep]_vars

\* an attached observer was notified of an empty batch and nothing was sent
C8_Witness ==
  /\ lastNotified = << <<>> >>
  /\ posted = <<>>
  /\ listeners = {}
  /\ \E i \in 1..Len(instances) : "body" \in instances[i].observed

\* What the failure of dispatch d must have caused, given the hooks supplied.
C9_Expected(d) ==
  LET o == instances[owner[d]].options
      e(kind) == [kind |-> kind, message |-> promises[d].reason,
                  dispatch |-> d]
  IN IF ~Rejected(d) THEN <<>>
     ELSE IF o.onError /\ o.captureError
       THEN <<e("warn"), e("onError"), e("captureError")>>
     ELSE IF o.onError THEN <<e("warn"), e("onError")>>
     ELSE IF o.captureError THEN <<e("warn"), e("captureError")>>
     ELSE <<e("warn")>>

\* C9: a rejected dispatch has caused exactly one warning, then onError if it
\* was supplied, then captureError if it was supplied, each once and with the
\* error of that dispatch; a dispatch that has not failed caused none.
C9_FailureReported ==
  \A d \in Dispatches : EventsOf(d) = C9_Expected(d)

\* a failure was reported to both hooks, onError first
C9_Witness ==
  \E d \in Dispatches :
    /\ Rejected(d)
    /\ Len(EventsOf(d)) = 3
    /\ EventsOf(d)[2].kind = "onError"
    /\ EventsOf(d)[3].kind = "captureError"

HookCalls(kind) == SelectSeq(events, LAMBDA e : e.kind = kind)

\* Hook calls belong to rejected dispatches and are no more than those.
C10_HooksOnlyForFailures ==
  /\ \A k \in 1..Len(events) :
       events[k].kind \in {"onError", "captureError"} =>
         /\ events[k].dispatch \in Dispatches
         /\ Rejected(events[k].dispatch)
  /\ Len(HookCalls("onError"))
       <= Cardinality({d \in Dispatches : Rejected(d)})
  /\ Len(HookCalls("captureError"))
       <= Cardinality({d \in Dispatches : Rejected(d)})

\* The delivery of any message.
C10_DeliverStep ==
  \A msg \in Messages : Deliver(msg) => events' = events

\* C10: hooks are called only for dispatches that were rejected, onError at
\* most once per rejected dispatch, and the delivery of a message, matching
\* or not, never adds a warning or a hook call.
C10_NoHookWithoutFailure ==
  []C10_HooksOnlyForFailures /\ [][C10_DeliverStep]_vars

\* one dispatch was acknowledged, one failed, and onError ran once
C10_Witness ==
  /\ \E d \in Dispatches : Fulfilled(d)
  /\ Len(HookCalls("onError")) = 1
  /\ Cardinality({d \in Dispatches : Rejected(d)}) = 1

\* ---- the lifecycle claims -------------------------------------------------
AutoIds == 1..MaxAuto

\* The variables a cleanup leaves alone: everything but the instances.
notInstances == <<hasWindow, hasBody, readyState, createdBy, autos,
                  readyListeners, uuids, commands, owner, sentAt, promises,
                  listeners, timers, posted, events, uncaught, lastNotified,
                  inbox, now>>

\* The cleanup of initIFrameResizing: a second call changes nothing more.
C11_CleanupStep ==
  \A i \in LifeInstanceIds :
    Cleanup(i) =>
      /\ UNCHANGED notInstances
      /\ Disconnect(instances', i) = instances'
      /\ instances'[i].observed = {}

\* The handle of autoInitIFrameResizing: a second call changes nothing more.
C11_AutoCleanupStep ==
  \A a \in AutoIds :
    AutoCleanup(a) =>
      /\ UNCHANGED notInstances
      /\ CallCleanup(instances', autos'[a].cleanup) = instances'

\* C11: a call of a returned cleanup function, in any state, throws nothing,
\* sends nothing, changes nothing but the attachment of its observer, and
\* calling it again on the resulting state leaves that state as it is.
C11_CleanupIdempotent == [][C11_CleanupStep /\ C11_AutoCleanupStep]_vars

\* the handle of a deferred call disconnected the observer that had been
\* attached and had sent a command
C11_Witness ==
  /\ \E i \in 1..Len(instances) :
       /\ i \in DeferredInstances
       /\ instances[i].observer
       /\ instances[i].observed = {}
       /\ \E d \in Dispatches : owner[d] = i
  /\ events = <<>>

\* The instances created by autoInitIFrameResizing call a.
InstancesOf(a) == {i \in 1..Len(instances) : createdBy[i] = a}

\* Every observer of a call whose handle has been called is disconnected.
C12_AutoStopped ==
  \A a \in handleCalled :
    \A i \in InstancesOf(a) : instances[i].observed = {}

\* The cleanup of initIFrameResizing disconnects, a disconnected observer of
\* initIFrameResizing stays so, and only attached observers send.
C12_DirectStep ==
  /\ \A i \in LifeInstanceIds : Cleanup(i) => instances'[i].observed = {}
  /\ \A i \in DirectInstances :
       instances[i].observed = {} => instances'[i].observed = {}
  /\ \A d \in (1..Len(commands')) \ Dispatches :
       "body" \in instances[owner'[d]].observed

\* C12: once the cleanup function returned by initIFrameResizing or
\* autoInitIFrameResizing has been called, every observer created by that
\* call is disconnected and stays so, whatever events follow, so that no
\* command is sent on behalf of that call any more.
C12_CleanupStopsResizing == []C12_AutoStopped /\ [][C12_DirectStep]_vars

\* C12, the part about initIFrameResizing alone
C12_DirectStopped == [][C12_DirectStep]_vars

\* The cleanup of instance i has disconnected it from the body (while the
\* body exists, an observer that observes nothing has been cleaned up).
CleanedUp(i) ==
  /\ hasBody
  /\ instances[i].cleanup = "disconnect"
  /\ instances[i].observed = {}

\* A pending dispatch of a cleaned-up instance has its listener and its timer.
C13_InFlightState ==
  \A d \in Dispatches :
    (CleanedUp(owner[d]) /\ Pending(d)) =>
      /\ d \in listeners
      /\ d \in DOMAIN timers
      /\ timers[d] = sentAt[d] + TimeoutMs

\* The cleanup touches no dispatch.
C13_CleanupStep ==
  \A i \in InstanceIds :
    Cleanup(i) =>
      UNCHANGED <<commands, owner, sentAt, promises, listeners, timers,
                  posted, events, uncaught>>

\* After the cleanup, a matching response still resolves.
C13_DeliverStep ==
  \A msg \in Messages :
    Deliver(msg) =>
      \A d \in Dispatches :
        (CleanedUp(owner[d]) /\ Pending(d) /\ Matching(d, msg)) =>
          /\ promises'[d].state = "fulfilled"
          /\ events' = events

\* After the cleanup, the timer still rejects and the failure is reported.
C13_TimeoutStep ==
  \A d \in Dispatches :
    (CleanedUp(owner[d]) /\ Pending(d) /\ Timeout(d)) =>
      /\ promises'[d].state = "rejected"
      /\ events' = events \o C9_Expected(d)'
      /\ Len(events') > Len(events)

\* C13: the cleanup changes nothing of the dispatches made before it: a
\* pending dispatch of a disconnected observer keeps its listener and its
\* timer, a matching response still resolves it, and otherwise its timer
\* still rejects it and the warning and the supplied hooks still run.
C13_CleanupKeepsInFlight ==
  /\ []C13_InFlightState
  /\ [][C13_CleanupStep /\ C13_DeliverStep /\ C13_TimeoutStep]_vars

\* the observer is disconnected while one of its dispatches has timed out and
\* was reported to both hooks, and the timer of another is due
C13_Witness ==
  \E d, e \in Dispatches :
    /\ CleanedUp(owner[d]) /\ CleanedUp(owner[e])
    /\ Pending(d)
    /\ timers[d] <= now
    /\ Rejected(e)
    /\ Len(EventsOf(e)) = 3

\* The autoInitIFrameResizing calls that took the deferred path.
DeferredCalls == {a \in 1..Len(autos) : autos[a].path = "deferred"}

\* A call while the document is loading creates and attaches nothing and
\* registers one listener; its handle calls `() => {}` for now.
C14_AutoInitStep ==
  \A options \in Options :
    (hasWindow /\ readyState = "loading"
       /\ autoInitIFrameResizing(options)) =>
      /\ instances' = instances
      /\ events' = events
      /\ readyListeners' = Append(readyListeners, Len(autos'))
      /\ autos'[Len(autos')] =
           [options |-> options, path |-> "deferred", cleanup |-> 0]

\* An observer of a deferred call comes into being only in a
\* DOMContentLoaded step, which attaches it to the body if there is one.
C14_ReadyStep ==
  \A a \in DeferredCalls :
    InstancesOf(a)' # InstancesOf(a) =>
      /\ DOMContentLoaded
      /\ \A i \in InstancesOf(a)' \ InstancesOf(a) :
           instances'[i].observed = IF hasBody THEN {"body"} ELSE {}

\* A deferred call whose listener has not run has no observer.
C14_NothingBeforeReady ==
  \A a \in DeferredCalls : autos[a].cleanup = 0 => InstancesOf(a) = {}

\* C14: autoInitIFrameResizing called while document.readyState is 'loading'
\* creates no observer and observes nothing before it returns, and registers
\* exactly one DOMContentLoaded listener; the observer of that call is
\* created and attached to the body only by a DOMContentLoaded event.
C14_DeferredUntilReady ==
  /\ []C14_NothingBeforeReady
  /\ [][C14_AutoInitStep /\ C14_ReadyStep]_vars

\* the ready event has attached the observer of a deferred call
C14_Witness ==
  \E a \in DeferredCalls :
    /\ readyState = "interactive"
    /\ \E i \in InstancesOf(a) : instances[i].observed = {"body"}

\* The autoInitIFrameResizing calls that initialised at once.
ImmediateCalls == {a \in 1..Len(autos) : autos[a].path = "immediate"}

\* A call while the document is interactive or complete does what
\* initIFrameResizing does and returns the cleanup of the new observer.
C15_AutoInitStep ==
  \A options \in Options :
    (hasWindow /\ readyState \in {"interactive", "complete"}
       /\ autoInitIFrameResizing(options)) =>
      /\ instances' = Append(instances, NewInstance(options))
      /\ hasBody => instances'[Len(instances')].observed = {"body"}
      /\ events' = events \o InitWarnings
      /\ readyListeners' = readyListeners
      /\ autos'[Len(autos')] =
           [options |-> options, path |-> "immediate",
            cleanup |-> Len(instances')]

\* The handle of such a call is the cleanup of its observer.
C15_HandleStep ==
  \A a \in ImmediateCalls :
    AutoCleanup(a) =>
      /\ InstancesOf(a) = {autos[a].cleanup}
      /\ instances' = Disconnect(instances, autos[a].cleanup)

\* Such a call has one observer for good and registered no listener.
C15_ImmediateState ==
  \A a \in ImmediateCalls :
    /\ InstancesOf(a) = {autos[a].cleanup}
    /\ \A k \in 1..Len(readyListeners) : readyListeners[k] # a

\* C15: autoInitIFrameResizing called while document.readyState is
\* 'interactive' or 'complete' initialises before it returns: the observer is
\* created and attached to the body, no DOMContentLoaded listener is
\* registered, and the function returned is the cleanup of that observer.
C15_ImmediateWhenReady ==
  /\ []C15_ImmediateState
  /\ [][C15_AutoInitStep /\ C15_HandleStep]_vars

\* a call made while the document was interactive observes the body
C15_Witness ==
  \E a \in ImmediateCalls :
    /\ readyState = "interactive"
    /\ instances[autos[a].cleanup].observed = {"body"}
    /\ readyListeners = <<>>

\* The handle of a deferred call, called before the listener has run, does
\* nothing: the listener stays registered.
C16_EarlyCleanupStep ==
  \A a \in DeferredCalls :
    (autos[a].cleanup = 0 /\ AutoCleanup(a)) =>
      /\ UNCHANGED notInstances
      /\ instances' = instances
      /\ \E k \in 1..Len(readyListeners') : readyListeners'[k] = a

\* The ready event initialises every deferred call, also one whose handle
\* has been called.
C16_ReadyStep ==
  DOMContentLoaded =>
    \A a \in DeferredCalls :
      /\ autos'[a].cleanup \in InstancesOf(a)' \ InstancesOf(a)
      /\ instances'[autos'[a].cleanup].observer
      /\ hasBody => instances'[autos'[a].cleanup].observed = {"body"}

\* The observer of such a call sends a command for a size change.
C16_NotifyStep ==
  \A a \in handleCalled \cap DeferredCalls :
    \A i \in InstancesOf(a) :
      \A entries \in LifeBatches \ {<<>>} :
        Notify(i, entries) =>
          /\ Len(posted') = Len(posted) + 1
          /\ owner'[Len(owner')] = i

\* A deferred call keeps its listener whatever its handle does.
C16_ListenerKept ==
  \A a \in DeferredCalls :
    \E k \in 1..Len(readyListeners) : readyListeners[k] = a

\* C16: calling the handle of a deferred autoInitIFrameResizing call before
\* the ready event changes nothing and does not withdraw the listener: a
\* later DOMContentLoaded still creates the observer and attaches it to the
\* body, and that observer sends commands for size changes.
C16_EarlyCleanupDoesNotCancel ==
  /\ []C16_ListenerKept
  /\ [][C16_EarlyCleanupStep /\ C16_ReadyStep /\ C16_NotifyStep]_vars

\* the handle was called before the only ready event, whose observer is
\* attached and has sent a command
C16_Witness ==
  \E a \in handleCalled \cap DeferredCalls :
    /\ InstancesOf(a) = {autos[a].cleanup}
    /\ instances[autos[a].cleanup].observed = {"body"}
    /\ \E d \in Dispatches : owner[d] = autos[a].cleanup

\* The observer a deferred call created last, 0 if it created none.
LatestOf(a) ==
  IF InstancesOf(a) = {} THEN 0
  ELSE CHOOSE i \in InstancesOf(a) : \A j \in InstancesOf(a) : j <= i

\* The `cleanup` of a deferred call is that of the observer its listener
\* created last, and `() => {}` before.
C17_CurrentCleanup ==
  \A a \in DeferredCalls : autos[a].cleanup = LatestOf(a)

\* The handle does what the current `cleanup` does.
C17_HandleStep ==
  \A a \in DeferredCalls :
    AutoCleanup(a) =>
      IF LatestOf(a) = 0
        THEN instances' = instances
        ELSE /\ instances'[LatestOf(a)].observed = {}
             /\ \A j \in 1..Len(instances) :
                  j # LatestOf(a) => instances'[j] = instances[j]
             /\ Len(instances') = Len(instances)

\* C17: the handle returned by a deferred autoInitIFrameResizing call does
\* what the variable `cleanup` holds when the handle is called: nothing
\* before the listener has run, and after it has run it disconnects the
\* observer the listener created and attached, which then observes nothing.
C17_HandleDelegates == []C17_CurrentCleanup /\ [][C17_HandleStep]_vars

\* the handle, returned before the observer existed, has disconnected the
\* observer the ready event attached, which had sent a command
C17_Witness ==
  \E a \in handleCalled \cap DeferredCalls :
    /\ InstancesOf(a) = {LatestOf(a)}
    /\ instances[LatestOf(a)].observed = {}
    /\ \E d \in Dispatches : owner[d] = LatestOf(a)
    /\ \A i \in 1..Len(instances) : instances[i].observed = {}

\* No autoInitIFrameResizing call has more than one observer.
C18_AtMostOneObserver ==
  \A a \in 1..Len(autos) : Cardinality(InstancesOf(a)) <= 1

\* The handle disconnects every observer its call created.
C18_HandleStep ==
  \A a \in AutoIds :
    AutoCleanup(a) =>
      \A i \in InstancesOf(a) : instances'[i].observed = {}

\* C18: the ready-event listener of a deferred autoInitIFrameResizing call
\* initialises at most once however often DOMContentLoaded is delivered: a
\* call never has more than one observer, and its handle disconnects every
\* observer the call created.
C18_ListenerOneShot == []C18_AtMostOneObserver /\ [][C18_HandleStep]_vars

\* On the server side initIFrameResizing warns and returns `() => {}`.
C19_InitStep ==
  \A options \in Options :
    (~hasWindow /\ initIFrameResizing(options)) =>
      /\ events' = Append(events,
           [kind |-> "warn",
            message |-> "initIFrameResizing: Cannot initialize on server side",
            dispatch |-> 0])
      /\ ~instances'[Len(instances')].observer
      /\ instances'[Len(instances')].observed = {}
      /\ instances'[Len(instances')].cleanup = "noop"
      /\ UNCHANGED <<readyListeners, listeners, timers, posted, uncaught>>

\* On the server side autoInitIFrameResizing only returns `() => {}`.
C19_AutoInitStep ==
  \A options \in Options :
    (~hasWindow /\ autoInitIFrameResizing(options)) =>
      /\ autos'[Len(autos')].cleanup = 0
      /\ UNCHANGED <<instances, events, readyListeners, listeners, timers,
                     posted, uncaught>>

\* On the server side the returned functions do nothing.
C19_CleanupStep ==
  ~hasWindow =>
    /\ \A i \in LifeInstanceIds :
         Cleanup(i) => UNCHANGED <<instances, notInstances>>
    /\ \A a \in AutoIds :
         AutoCleanup(a) => UNCHANGED <<instances, notInstances>>

\* On the server side there is no observer, no listener and no command.
C19_ServerState ==
  ~hasWindow =>
    /\ \A i \in 1..Len(instances) :
         ~instances[i].observer /\ instances[i].observed = {}
    /\ readyListeners = <<>>
    /\ listeners = {}
    /\ posted = <<>>
    /\ uncaught = {}
    /\ Len(events) = Cardinality(DirectInstances)

\* C19: without a global window, initIFrameResizing and
\* autoInitIFrameResizing return a function that does nothing, throw nothing,
\* create and attach no observer and register no listener; initIFrameResizing
\* logs 'initIFrameResizing: Cannot initialize on server side', and
\* autoInitIFrameResizing logs nothing.
C19_ServerSideNoop ==
  /\ []C19_ServerState
  /\ [][C19_InitStep /\ C19_AutoInitStep /\ C19_CleanupStep]_vars

\* both entry points were called on the server side and the handle of
\* autoInitIFrameResizing was called
C19_Witness ==
  /\ ~hasWindow
  /\ Len(instances) = 1
  /\ Len(autos) = 1
  /\ handleCalled = {1}
  /\ Len(events) = 1

\* The warning logged when the document has no body.
C20_Warning ==
  [kind |-> "warn", message |-> "initIFrameResizing: Document body not found",
   dispatch |-> 0]

\* An initialisation without a body, by either entry point or by the ready
\* event, logs the warning once per observer and attaches none of them.
C20_InitStep ==
  (hasWindow /\ ~hasBody /\ Len(instances') > Len(instances)) =>
    /\ \A i \in (1..Len(instances')) \ (1..Len(instances)) :
         /\ instances'[i].observer
         /\ instances'[i].observed = {}
    /\ events' = events \o
         [k \in 1..(Len(instances') - Len(instances)) |-> C20_Warning]

\* No observer is attached after its creation, only attached observers send,
\* and the cleanup of an observer that observes nothing changes nothing.
C20_NoLateAttach ==
  /\ \A i \in 1..Len(instances) :
       instances'[i].observed \subseteq instances[i].observed
  /\ \A d \in (1..Len(commands')) \ Dispatches :
       "body" \in instances[owner'[d]].observed
  /\ \A i \in LifeInstanceIds :
       (Cleanup(i) /\ instances[i].observed = {}) => instances' = instances

\* The observers that sent a command and the observers created without a body
\* are different ones.
C20_NoBodyNeverSends ==
  Cardinality({owner[d] : d \in Dispatches})
    + Len(SelectSeq(events, LAMBDA e : e = C20_Warning))
    <= Cardinality({i \in 1..Len(instances) : instances[i].observer})

\* C20: when the document has no body as initIFrameResizing runs, it logs
\* 'initIFrameResizing: Document body not found' and observes nothing; the
\* observer is never attached later, so it never sends a command even when
\* the body appears, and the returned cleanup can be called and does nothing.
C20_NoBodyNoAttach ==
  /\ []C20_NoBodyNeverSends
  /\ [][C20_InitStep /\ C20_NoLateAttach]_vars

\* the body appeared after the initialisation, whose observer is not attached
C20_Witness ==
  /\ hasBody
  /\ Len(instances) = 1
  /\ instances[1].observer
  /\ instances[1].observed = {}
  /\ events = <<C20_Warning>>

\* ---- the boundary claims ---------------------------------------------------
\* Every call of an entry point returned a function.
C21_ReturnsFunction ==
  /\ \A i \in 1..Len(instances) :
       instances[i].cleanup \in {"noop", "disconnect"}
  /\ \A a \in 1..Len(autos) :
       autos[a].cleanup \in 0..Len(instances)

\* A failed dispatch was logged, and nothing else reaches the log or a hook.
C21_FailuresSurface ==
  /\ \A d \in Dispatches :
       Rejected(d) => \E k \in 1..Len(events) :
                        events[k].kind = "warn" /\ events[k].dispatch = d
  /\ \A k \in 1..Len(events) :
       events[k].dispatch # 0 => Rejected(events[k].dispatch)

\* C21: whatever the environment and whatever events follow (timeouts,
\* messages that are not the awaited response), no exception is thrown out
\* of the library's code, both entry points return a function, and a failed
\* dispatch shows only in the warning log and the supplied hooks.
C21_FailuresContained ==
  /\ uncaught = {}
  /\ C21_ReturnsFunction
  /\ C21_FailuresSurface

\* The dispatches whose command carries the identifier id.
CommandsWithId(id) == {d \in Dispatches : commands[d].id = id}

\* C22: any two commands ever sent, by the same observer or by different
\* ones, carry different ids, so that a correspondingCommandId names at most
\* one command; the ids posted to the parent are those of the commands.
C22_IdsNeverReused ==
  /\ \A d, e \in Dispatches : d # e => commands[d].id # commands[e].id
  /\ \A id \in CommandIds : Cardinality(CommandsWithId(id)) <= 1
  /\ \A d \in Dispatches : posted[d].message.id = commands[d].id

\* two observers created by different calls have each sent a command
C22_Witness ==
  /\ Len(commands) = 2
  /\ owner[1] # owner[2]
  /\ createdBy[owner[1]] # createdBy[owner[2]]

\* A pending dispatch is eventually resolved or rejected.
C23_DispatchCompletes ==
  \A d \in 1..MaxDispatch :
    (d \in Dispatches /\ Pending(d)) ~> (d \in Dispatches /\ ~Pending(d))

\* No observer can notify any more: every initialisation was cleaned up.
C23_NotificationsStopped ==
  /\ Len(instances) = MaxInstances
  /\ \A i \in 1..Len(instances) : instances[i].observed = {}

\* No listener is registered and no timer is armed.
C23_Quiet == listeners = {} /\ DOMAIN timers = {}

\* C23: when the event loop runs every due timer and time passes, a pending
\* dispatch is eventually resolved by a matching response or rejected by its
\* timer, and once notifications have stopped the listeners and timers of
\* all dispatches are eventually gone.
C23_EventuallyCompletes ==
  /\ C23_DispatchCompletes
  /\ C23_NotificationsStopped ~> C23_Quiet

\* after the cleanup the last dispatch timed out and nothing is left
C23_Witness ==
  /\ C23_NotificationsStopped
  /\ C23_Quiet
  /\ Len(commands) = MaxDispatch
  /\ Rejected(Len(commands))

\* initIFrameResizing in a document with a body observes the body alone.
C24_InitStep ==
  \A options \in Options :
    (hasWindow /\ hasBody /\ initIFrameResizing(options)) =>
      /\ instances'[Len(instances')].observer
      /\ instances'[Len(instances')].observed = {"body"}
      /\ Cardinality(instances'[Len(instances')].observed) = 1
      /\ events' = events

\* The returned cleanup leaves nothing observed.
C24_CleanupStep ==
  \A i \in InstanceIds :
    Cleanup(i) => instances'[i].observed = {}

\* An observer never observes anything but the body.
C24_OnlyBody ==
  \A i \in 1..Len(instances) : instances[i].observed \subseteq {"body"}

\* C24: initIFrameResizing called in a browser document that has a body
\* creates an observer that observes exactly one element, document.body, and
\* after the returned cleanup that observer observes no element.
C24_ObservesBody ==
  []C24_OnlyBody /\ [][C24_InitStep /\ C24_CleanupStep]_vars

\* the observer was attached to the body, notified, and then cleaned up
C24_Witness ==
  /\ hasBody
  /\ Len(instances) = 1
  /\ instances[1].observer
  /\ instances[1].observed = {}
  /\ lastNotified # <<>>

\* The element initIFrameResizing attaches its observer to is the document's
\* documentElement, and it warns when it has no element to attach to.
C25_InitStep ==
  \A options \in Options :
    (hasWindow /\ initIFrameResizing(options)) =>
      \/ /\ instances'[Len(instances')].observed = {"documentElement"}
         /\ events' = events
      \/ /\ instances'[Len(instances')].observed = {}
         /\ Len(events') = Len(events) + 1
         /\ events'[Len(events')].kind = "warn"

\* C25: the observer created by initIFrameResizing monitors
\* document.documentElement, and the warning about the missing element is
\* logged when there is no documentElement to monitor.
C25_ObservesDocumentElement == [][C25_InitStep]_vars

\* A response resolves its own dispatch whatever the state of the others,
\* and changes no other dispatch.
C26_DeliverStep ==
  \A msg \in Messages :
    Deliver(msg) =>
      \A d \in Dispatches :
        (Pending(d) /\ Matching(d, msg)) =>
          /\ promises'[d].state = "fulfilled"
          /\ \A e \in Dispatches \ {d} :
               /\ promises'[e] = promises[e]
               /\ e \in listeners' <=> e \in listeners
               /\ e \in DOMAIN timers' <=> e \in DOMAIN timers

\* The later of two dispatches is resolved and the earlier is still pending.
C26_OutOfOrder(d, e) ==
  /\ d < e
  /\ Pending(d)
  /\ Fulfilled(e)

\* An earlier dispatch that was overtaken still has its listener and timer,
\* and its timer still rejects it.
C26_OvertakenState ==
  \A d, e \in Dispatches :
    C26_OutOfOrder(d, e) =>
      /\ d \in listeners
      /\ timers[d] = sentAt[d] + TimeoutMs

C26_OvertakenTimeoutStep ==
  \A d, e \in Dispatches :
    (C26_OutOfOrder(d, e) /\ Timeout(d)) =>
      /\ promises'[d].state = "rejected"
      /\ promises'[e] = promises[e]

\* C26: dispatches in flight together are not ordered: a response to the
\* later command resolves it while the earlier one stays pending and
\* untouched, and the earlier one is afterwards still resolved by its own
\* response or rejected by its own timer.
C26_NoOrdering ==
  /\ []C26_OvertakenState
  /\ [][C26_DeliverStep /\ C26_OvertakenTimeoutStep]_vars

\* the parent replied to the second command first and the deadline of the
\* first, still pending, has come
C26_Witness ==
  /\ Len(commands) = 2
  /\ C26_OutOfOrder(1, 2)
  /\ timers[1] <= now

\* When a command was posted, its listener was on the window and its timer
\* was armed.
C27_ListeningAtPost ==
  \A d \in 1..Len(posted) : posted[d].listening /\ posted[d].armed

\* From the turn that posts it on, a pending command has its listener.
C27_ListeningWhilePending ==
  \A d \in Dispatches :
    (d <= Len(posted) /\ Pending(d)) => d \in listeners

\* A reply that follows the send at once is seen.
C27_FastReplyStep ==
  \A msg \in Messages :
    Deliver(msg) =>
      \A d \in Dispatches :
        (Pending(d) /\ Matching(d, msg) /\ now = sentAt[d]) =>
          promises'[d].state = "fulfilled"

\* C27: sendResizeCommand arms the timer and registers the listener before
\* it posts the command: when the command is posted its listener is on the
\* window, it stays there while the dispatch is pending, and a reply
\* delivered right after the send resolves the dispatch.
C27_ListenerBeforeSend ==
  /\ []C27_ListeningAtPost
  /\ []C27_ListeningWhilePending
  /\ [][C27_FastReplyStep]_vars

\* a reply arrived in the instant of the send and was seen
C27_Witness ==
  \E d \in Dispatches :
    /\ Fulfilled(d)
    /\ now = sentAt[d]
    /\ posted[d].listening

\* data is a CommandResponse that matches the command of dispatch d.
MatchingData(d, data) ==
  /\ data.shape = "object"
  /\ data.receiver = "child"
  /\ data.correspondingCommandId = commands[d].id

\* A message of any shape that matches no pending dispatch raises nothing
\* and leaves every pending dispatch as it was.
C28_ReceiveStep ==
  \A data \in BoundaryData :
    Receive(data) =>
      /\ (\A d \in Dispatches : ~MatchingData(d, data)) =>
           uncaught' = uncaught
      /\ \A d \in Dispatches :
           (Pending(d) /\ ~MatchingData(d, data)) =>
             /\ promises'[d] = promises[d]
             /\ d \in listeners'
             /\ d \in DOMAIN timers'
             /\ timers'[d] = timers[d]

\* C28: a message that is not the matching response of a dispatch, whatever
\* event.data is (an object without the two fields, a primitive, null or
\* undefined), is ignored by the dispatch's listener: no error is raised and
\* the dispatch stays pending with its listener and its timer.
C28_ForeignMessageIgnored == [][C28_ReceiveStep]_vars

\* The objects that agree with data on receiver and correspondingCommandId.
SameKey(data) ==
  {other \in BoundaryObjects :
     /\ other.receiver = data.receiver
     /\ other.correspondingCommandId = data.correspondingCommandId}

\* What a message does, any message with the same two fields does: nothing
\* when the two fields match no listener's command, else the same step.
C29_SameEffectStep ==
  \A data \in BoundaryObjects :
    Receive(data) =>
      IF \E d \in listeners : MatchingData(d, data)
        THEN \A other \in SameKey(data) : Receive(other)
        ELSE UNCHANGED <<promises, listeners, timers, events, uncaught>>

\* A matching response acknowledges whoever its sender is.
C29_AnySenderStep ==
  \A data \in BoundaryObjects :
    Receive(data) =>
      \A d \in Dispatches :
        (Pending(d) /\ MatchingData(d, data)) =>
          promises'[d].state = "fulfilled"

\* C29: what an inbound message does to the dispatches depends only on its
\* receiver and correspondingCommandId: two messages that agree on both have
\* the same effect whatever their sender and payload, and a matching message
\* resolves its dispatch also when its sender is not 'parent'.
C29_OnlyTwoFieldsMatter == [][C29_SameEffectStep /\ C29_AnySenderStep]_vars

\* one dispatch was acknowledged while another is still waiting
C29_Witness ==
  \E d, e \in Dispatches :
    /\ Fulfilled(d)
    /\ Pending(e)
    /\ uncaught = {}

\* A dispatch has its listener exactly when it has its timer, and that is
\* exactly while it is pending.
C30_PairedState ==
  /\ listeners \subseteq Dispatches
  /\ DOMAIN timers \subseteq Dispatches
  /\ \A d \in Dispatches :
       /\ d \in listeners <=> d \in DOMAIN timers
       /\ d \in listeners <=> Pending(d)

\* Listener and timer are retired in the same step, by one call of resolve
\* or one call of reject.
C30_RetireStep ==
  \A d \in Dispatches :
    /\ (d \in listeners /\ d \notin listeners') <=>
         (d \in DOMAIN timers /\ d \notin DOMAIN timers')
    /\ (d \in listeners /\ d \notin listeners') =>
         /\ promises'[d].state \in {"fulfilled", "rejected"}
         /\ promises'[d].resolveCalls + promises'[d].rejectCalls = 1
    /\ d \notin listeners =>
         (d \notin listeners' /\ d \notin DOMAIN timers')

\* C30: between callback turns every outstanding command has its listener
\* and its timer together, a command's listener is registered exactly when
\* its timer is armed, both are retired in one step, by the matching
\* response or by the timeout and never by both, and neither comes back.
C30_ListenerTimerPair == []C30_PairedState /\ [][C30_RetireStep]_vars

\* one pair was retired by a response, one by the timeout, none is left
C30_Witness ==
  /\ Len(commands) = 2
  /\ \E d, e \in Dispatches : Fulfilled(d) /\ Rejected(e)
  /\ listeners = {}
  /\ DOMAIN timers = {}

(***************************************************************************)
(* Properties of batches, hooks and failures                               *)
(***************************************************************************)
\* The callback called with a batch of one or more entries: one dispatch is
\* added, built from the first entry alone.
C31_NotifyStep ==
  \A entries \in Batches \ {<<>>} :
    \A i \in InstanceIds :
      Notify(i, entries) =>
        LET first == entries[1].contentRect.height
            d == Len(commands) + 1
        IN /\ Len(commands') = d
           /\ Len(posted') = Len(posted) + 1
           /\ commands'[d] = Command(uuidv4(uuids), first)
           /\ posted'[Len(posted')].message = commands'[d]
           /\ commands'[d].payload = <<<<first>>>>
           /\ SubSeq(commands', 1, Len(commands)) = commands
           /\ listeners' = listeners \cup {d}
           /\ DOMAIN timers' = (DOMAIN timers) \cup {d}

\* Every command carries one height.
C31_OneHeight ==
  \A d \in Dispatches :
    /\ Len(commands[d].payload) = 1
    /\ Len(commands[d].payload[1]) = 1

\* C31: a notification batch with k >= 1 entries dispatches exactly one
\* command, whose height is the content-rect height of the first entry; the
\* other k-1 entries cause no command and do not influence the payload.
C31_FirstEntryOnly == []C31_OneHeight /\ [][C31_NotifyStep]_vars

\* a batch of two entries with different heights was reported as one command
\* carrying the first height
C31_Witness ==
  /\ Len(lastNotified) = 1
  /\ Len(lastNotified[1]) = 2
  /\ lastNotified[1][1].contentRect.height = 500500
  /\ lastNotified[1][2].contentRect.height = 0
  /\ Len(commands) = 1
  /\ commands[1].payload = <<<<500500>>>>

\* The captureError calls made for dispatch d.
CaptureErrorCalls(d) ==
  SelectSeq(EventsOf(d), LAMBDA e : e.kind = "captureError")

\* C32: for every failed dispatch of an instance that supplied captureError,
\* captureError was invoked exactly once with the error of that dispatch,
\* whether onError is absent, returns normally or throws.
C32_CaptureErrorIndependent ==
  \A d \in Dispatches :
    (Rejected(d) /\ instances[owner[d]].options.captureError) =>
      /\ Len(CaptureErrorCalls(d)) = 1
      /\ CaptureErrorCalls(d)[1].message = promises[d].reason

\* The dispatches that ended in the timeout failure.
TimedOut == {d \in Dispatches : Rejected(d) /\ promises[d].reason = TimeoutMessage}

\* A timer callback leaves every observer as it was and throws nothing.
C33_TimeoutStep ==
  \A d \in 1..MaxDispatch :
    Timeout(d) => /\ instances' = instances
                  /\ uncaught' = uncaught
                  /\ d \in TimedOut'

\* A notification that follows timeouts is dispatched like any other: a new
\* command with an id no earlier command had, pending, with its own listener
\* and its own timer, and the failed dispatches stay as they were.
C33_NotifyAfterTimeoutStep ==
  \A entries \in Batches \ {<<>>} :
    \A i \in InstanceIds :
      (TimedOut # {} /\ Notify(i, entries)) =>
        LET d == Len(commands) + 1
        IN /\ Len(commands') = d
           /\ \A e \in Dispatches : commands'[d].id # commands[e].id
           /\ commands'[d].payload = <<<<entries[1].contentRect.height>>>>
           /\ promises'[d] = NewPromise
           /\ d \in listeners'
           /\ d \in DOMAIN timers' /\ timers'[d] = now + TimeoutMs
           /\ posted'[Len(posted')].message = commands'[d]
           /\ \A e \in Dispatches : promises'[e] = promises[e]
           /\ events' = events

\* While its observer is attached, the callback can be notified, whatever
\* dispatches have timed out.
C33_StillOperational ==
  \A i \in InstanceIds :
    (/\ i <= Len(instances)
     /\ "body" \in instances[i].observed
     /\ Len(commands) < MaxDispatch) =>
      \A entries \in LifeBatches : ENABLED Notify(i, entries)

\* C33: a timed-out dispatch is not fatal: the timer callback leaves the
\* observer attached, and after any number of timeouts the next non-empty
\* notification dispatches a new command with a new id, independently of the
\* failed ones.
C33_TimeoutNonFatal ==
  /\ []C33_StillOperational
  /\ [][C33_TimeoutStep /\ C33_NotifyAfterTimeoutStep]_vars

\* the first dispatch timed out and was reported, and a later notification
\* has a new command in flight
C33_Witness ==
  /\ Len(commands) = 2
  /\ 1 \in TimedOut
  /\ Len(EventsOf(1)) > 0
  /\ Pending(2)
  /\ 2 \in listeners
  /\ sentAt[2] >= sentAt[1] + TimeoutMs
  /\ commands[2].id # commands[1].id

\* autoInitIFrameResizing called without a global window: the call returns
\* `() => {}` and nothing else changes.
C34_AutoInitStep ==
  \A options \in Options :
    (~hasWindow /\ autoInitIFrameResizing(options)) =>
      /\ autos' = Append(autos, [options |-> options, path |-> "server",
                                 cleanup |-> 0])
      /\ UNCHANGED <<hasWindow, hasBody, readyState, instances, createdBy,
                     readyListeners, handleCalled, uuids, commands, owner,
                     sentAt, promises, listeners, timers, posted, events,
                     uncaught, lastNotified, now>>

\* initIFrameResizing called without a global window logs one warning.
C34_InitStep ==
  \A options \in Options :
    (~hasWindow /\ initIFrameResizing(options)) =>
      /\ Len(events') = Len(events) + 1
      /\ events'[Len(events')].kind = "warn"

\* Without a global window no call of autoInitIFrameResizing has an instance,
\* a ready listener or a warning of its own.
C34_NothingFromAuto ==
  ~hasWindow =>
    /\ \A a \in 1..Len(autos) :
         autos[a].path = "server" /\ InstancesOf(a) = {}
    /\ \A i \in 1..Len(instances) : createdBy[i] = 0
    /\ readyListeners = <<>>
    /\ Len(events) = Len(instances)

\* C34: when no global window exists, autoInitIFrameResizing has no side
\* effect at all: it logs no warning (initIFrameResizing logs one), registers
\* no DOMContentLoaded listener, reads no document state and creates no
\* observer.
C34_AutoInitServerSilent ==
  /\ []C34_NothingFromAuto
  /\ [][C34_AutoInitStep /\ C34_InitStep]_vars

\* autoInitIFrameResizing alone was called on the server side and left no
\* trace
C34_Witness ==
  /\ ~hasWindow
  /\ Len(autos) = 1
  /\ autos[1].path = "server"
  /\ instances = <<>>
  /\ events = <<>>
  /\ readyListeners = <<>>

\* The delivery of a queued command changes no dispatch.
C35_EchoStep ==
  Echo => UNCHANGED <<promises, listeners, timers, events, uncaught>>

\* With no other responder no dispatch is acknowledged, the only failure is
\* the timeout, and what is queued on the window are the commands themselves.
C35_NeverAcknowledged ==
  /\ \A d \in Dispatches :
       /\ ~Fulfilled(d)
       /\ Rejected(d) => promises[d].reason = TimeoutMessage
       /\ promises[d].resolveCalls = 0
  /\ \A k \in 1..Len(inbox) :
       /\ inbox[k].receiver = "parent"
       /\ "correspondingCommandId" \notin DOMAIN inbox[k]

\* Every dispatch ends in the timeout failure.
C35_EndsInTimeout ==
  \A d \in 1..MaxDispatch : (d \in Dispatches) ~> (d \in TimedOut)

\* C35: when the page is not embedded, the posted command is delivered back
\* to the listeners of the page; that echo never resolves a dispatch (its
\* receiver is 'parent' and it has no correspondingCommandId), so with no
\* other responder every dispatch ends in a timeout failure.
C35_EchoNeverResolves ==
  /\ []C35_NeverAcknowledged
  /\ [][C35_EchoStep]_vars
  /\ C35_EndsInTimeout

\* the echo of the first command was delivered to its listener, which is
\* still registered; the second dispatch is made after the first timed out
C35_Witness ==
  /\ Len(posted) = 2
  /\ inbox = <<>>
  /\ 1 \in TimedOut
  /\ sentAt[2] = sentAt[1] + TimeoutMs
  /\ Pending(2)
  /\ 2 \in listeners

\* The instances of a page that calls initIFrameResizing more than once.
PairIds == 1..MaxPair

\* A notification of one observer dispatches one command, owned by that
\* observer, with an id no other command has.
C36_NotifyStep ==
  \A i \in PairIds :
    \A entries \in LifeBatches \ {<<>>} :
      Notify(i, entries) =>
        LET d == Len(commands) + 1
        IN /\ Len(commands') = d
           /\ owner'[d] = i
           /\ \A e \in Dispatches : commands'[d].id # commands[e].id
           /\ instances' = instances

\* The cleanup of one instance leaves every other instance as it was.
C36_CleanupStep ==
  \A i \in PairIds :
    Cleanup(i) =>
      \A j \in 1..Len(instances) : j # i => instances'[j] = instances[j]

\* A failure is reported to the hooks of the instance that dispatched it, and
\* to no hook of another instance.
C36_TimeoutStep ==
  \A d \in 1..MaxDispatch :
    Timeout(d) =>
      LET o == instances[owner[d]].options
          added == SubSeq(events', Len(events) + 1, Len(events'))
      IN /\ SubSeq(events', 1, Len(events)) = events
         /\ \A k \in 1..Len(added) : added[k].dispatch = d
         /\ (\E k \in 1..Len(added) : added[k].kind = "onError") <=> o.onError
         /\ (\E k \in 1..Len(added) : added[k].kind = "captureError")
              <=> o.captureError

\* Commands have pairwise distinct ids, and every hook call made so far is
\* one the owner of the dispatch supplied.
C36_Separate ==
  /\ \A d, e \in Dispatches : d # e => commands[d].id # commands[e].id
  /\ \A k \in 1..Len(events) :
       /\ events[k].kind = "onError" =>
            instances[owner[events[k].dispatch]].options.onError
       /\ events[k].kind = "captureError" =>
            instances[owner[events[k].dispatch]].options.captureError

\* C36: each call of initIFrameResizing creates an independent instance: with
\* two live instances a notification delivered to both yields two commands
\* with distinct ids, the cleanup of one instance never disconnects the
\* observer of the other, and a failed dispatch invokes only the hooks of the
\* instance whose observer dispatched it.
C36_IndependentInstances ==
  /\ []C36_Separate
  /\ [][C36_NotifyStep /\ C36_CleanupStep /\ C36_TimeoutStep]_vars

\* two instances with different hooks each dispatched a command that timed
\* out; each failure reached only the hook of its own instance, and the first
\* instance was cleaned up while the second still observes
C36_Witness ==
  /\ Len(instances) = 2
  /\ instances[1].options = [onError |-> TRUE, captureError |-> FALSE]
  /\ instances[2].options = [onError |-> FALSE, captureError |-> TRUE]
  /\ Len(commands) = 2
  /\ owner = <<1, 2>>
  /\ sentAt[1] = sentAt[2]
  /\ commands[1].id # commands[2].id
  /\ 1 \in TimedOut /\ 2 \in TimedOut
  /\ [k \in 1..Len(EventsOf(1)) |-> EventsOf(1)[k].kind] = <<"warn", "onError">>
  /\ [k \in 1..Len(EventsOf(2)) |-> EventsOf(2)[k].kind]
       = <<"warn", "captureError">>
  /\ instances[1].observed = {}
  /\ instances[2].observed = {"body"}

\* The dispatches whose post threw.
PostFailed == {d \in Dispatches : promises[d].reason = PostError}

\* The kinds of the events of dispatch d, in order.
KindsOf(d) == [k \in 1..Len(EventsOf(d)) |-> EventsOf(d)[k].kind]

\* The report of a failure by hooks that return normally.
C37_Report(options) ==
  <<"warn">> \o (IF options.onError THEN <<"onError">> ELSE <<>>)
             \o (IF options.captureError THEN <<"captureError">> ELSE <<>>)

\* A notification whose post throws: the new dispatch is rejected with the
\* error thrown, its listener is registered and its timer armed, nothing is
\* posted.
C37_PostThrowsStep ==
  \A i \in InstanceIds :
    \A entries \in LifeBatches :
      NotifyPostThrows(i, entries) =>
        LET d == Len(commands) + 1
        IN /\ Len(commands') = d
           /\ promises'[d].state = "rejected"
           /\ promises'[d].reason = PostError
           /\ d \in listeners'
           /\ d \in DOMAIN timers' /\ timers'[d] = now + TimeoutMs
           /\ posted' = posted
           /\ SubSeq(events', 1, Len(events)) = events
           /\ \A k \in (Len(events) + 1)..Len(events') :
                events'[k].dispatch = d /\ events'[k].message = PostError

\* A dispatch whose post threw stays rejected with that error and was
\* reported once: one warning, each hook at most once, and every supplied
\* hook once when the hooks return normally; its listener and its timer are
\* live together.
C37_ReportedOnce ==
  \A d \in PostFailed :
    LET o == instances[owner[d]].options
    IN /\ Rejected(d)
       /\ Len(SelectSeq(EventsOf(d), LAMBDA e : e.kind = "warn")) = 1
       /\ Len(SelectSeq(EventsOf(d), LAMBDA e : e.kind = "onError")) <= 1
       /\ Len(SelectSeq(EventsOf(d), LAMBDA e : e.kind = "captureError")) <= 1
       /\ ~CatchHandlerThrows(o) => KindsOf(d) = C37_Report(o)
       /\ d \in listeners <=> d \in DOMAIN timers

\* The listener and the timer of such a dispatch go only when its timer runs
\* at its deadline or a matching response arrives, and then nothing is
\* settled or reported a second time.
C37_RetireStep ==
  \A d \in PostFailed :
    /\ promises'[d].state = promises[d].state
    /\ promises'[d].reason = promises[d].reason
    /\ EventsOf(d)' = EventsOf(d)
    /\ (d \in listeners /\ d \notin listeners') =>
         /\ d \notin DOMAIN timers'
         /\ \/ /\ promises'[d].rejectCalls = promises[d].rejectCalls + 1
               /\ timers[d] <= now
            \/ promises'[d].resolveCalls = promises[d].resolveCalls + 1
    /\ d \notin listeners => d \notin listeners'

\* C37: when posting the command throws synchronously, the dispatch is
\* rejected with that error and reported through the warning log and the hooks
\* exactly once; the listener and the timer already in place stay live until
\* a matching response or the timeout retires them, and that retirement
\* settles nothing and calls no hook a second time.
C37_PostThrowsReportedOnce ==
  /\ []C37_ReportedOnce
  /\ [][C37_PostThrowsStep /\ C37_RetireStep]_vars

\* a dispatch whose post threw was reported to both hooks, and its timer
\* later ran: reject was called a second time and nothing more was reported
C37_Witness ==
  \E d \in PostFailed :
    /\ instances[owner[d]].options =
         [onError |-> TRUE, captureError |-> TRUE, throws |-> {}]
    /\ promises[d].rejectCalls = 2
    /\ d \notin listeners
    /\ d \notin DOMAIN timers
    /\ KindsOf(d) = <<"warn", "onError", "captureError">>
    /\ now >= sentAt[d] + TimeoutMs

\* Dispatch e is the same before and after the step: its promise, its
\* listener and its timer.
C38_Untouched(e) ==
  /\ promises'[e] = promises[e]
  /\ (e \in listeners') <=> (e \in listeners)
  /\ (e \in DOMAIN timers') <=> (e \in DOMAIN timers)
  /\ e \in DOMAIN timers => timers'[e] = timers[e]

\* The failure of one dispatch, whether or not a hook throws while it is
\* reported, touches no other dispatch and no observer.
C38_FailureStep ==
  /\ \A d \in 1..MaxDispatch :
       Timeout(d) =>
         /\ \A e \in Dispatches \ {d} : C38_Untouched(e)
         /\ instances' = instances
  /\ \A i \in InstanceIds :
       \A entries \in LifeBatches :
         NotifyPostThrows(i, entries) =>
           /\ \A e \in Dispatches : C38_Untouched(e)
           /\ instances' = instances

\* Whatever has failed before, a pending dispatch is acknowledged by its
\* response and rejected by its own timer.
C38_OutcomeStep ==
  \A e \in Dispatches :
    Pending(e) =>
      /\ \A msg \in Messages :
           (Matching(e, msg) /\ Deliver(msg)) => Fulfilled(e)'
      /\ Timeout(e) => (e \in TimedOut)'

\* A pending dispatch has its listener and its timer, whatever was thrown.
C38_InFlightIntact ==
  \A e \in Dispatches :
    Pending(e) => e \in listeners /\ e \in DOMAIN timers

\* C38: dispatches are isolated from one another's failures: a dispatch that
\* times out, or an error hook that throws while a failure is reported, never
\* changes the listener, the timer or the eventual outcome of another
\* dispatch in flight, and never detaches the observer.
C38_FailuresIsolated ==
  /\ []C38_InFlightIntact
  /\ [][C38_FailureStep /\ C38_OutcomeStep]_vars

\* a hook threw while the timeout of the first dispatch was reported; the
\* second dispatch, in flight at that moment, is still pending with its
\* listener and its timer, and the observer is attached
C38_Witness ==
  /\ Len(commands) = 2
  /\ 1 \in TimedOut
  /\ "UnhandledRejection" \in uncaught
  /\ sentAt[2] = sentAt[1]
  /\ Pending(2)
  /\ 2 \in listeners
  /\ 2 \in DOMAIN timers
  /\ instances[owner[2]].observed = {"body"}

\* Every armed timer is due 20000 ms after its command was dispatched,
\* whatever the options of the instance and the height reported; deadlines
\* therefore follow the order of dispatch.
C39_FixedDuration ==
  /\ \A d \in DOMAIN timers : timers[d] = sentAt[d] + TimeoutMs
  /\ \A d, e \in DOMAIN timers : d < e => timers[d] <= timers[e]

\* When the timer of a dispatch runs, its deadline has come and no dispatch
\* made before it is still pending.
C39_TimeoutStep ==
  \A e \in 1..MaxDispatch :
    Timeout(e) =>
      /\ now >= sentAt[e] + TimeoutMs
      /\ \A d \in Dispatches : d < e => ~Pending(d)
      /\ \A d \in Dispatches : (d < e /\ d \in TimedOut) => d \in TimedOut'

\* C39: every command uses the same fixed timeout, armed at dispatch time,
\* so timeouts occur in dispatch order: of two dispatches that both end in
\* timeout, the one dispatched earlier is rejected no later than the other,
\* and neither the options nor the height change the duration.
C39_TimeoutsInDispatchOrder ==
  []C39_FixedDuration /\ [][C39_TimeoutStep]_vars

\* two dispatches with different heights, made 20000 ms apart, both timed out
C39_Witness ==
  /\ Len(commands) = 2
  /\ commands[1].payload # commands[2].payload
  /\ sentAt[1] < sentAt[2]
  /\ 1 \in TimedOut /\ 2 \in TimedOut
  /\ now = sentAt[2] + TimeoutMs

====
